---- MODULE Spec2Model ----
(***************************************************************************)
(* Model of ai_aqi_analysis_agent_gradio.py: the location URL formatter,   *)
(* the metrics fetcher (AQIAnalyzer.fetch_aqi_data), the recommendation    *)
(* generator (HealthRecommendationAgent.get_recommendations) and the       *)
(* orchestration function analyze_conditions.                              *)
(*                                                                         *)
(* A Python str is a sequence of one-character strings.  A Python float is *)
(* modelled by its numeric value (an integer of the model).  The two       *)
(* external services and the two client constructors are environment:      *)
(* their outcomes are nondeterministic choices over bounded sets.          *)
(***************************************************************************)
EXTENDS Integers, Sequences, FiniteSets, TLC

VARIABLES
    pc,                 \* position of analyze_conditions: idle, extracting, generating, returned
    city, state, country, medical_conditions, planned_activity,   \* the five inputs
    url,                \* fetch_aqi_data's local url (line 56)
    url_req,            \* urls[0] of the extraction request (line 60)
    info_msg,           \* fetch_aqi_data's local info_msg (line 57)
    ctor_out,           \* outcomes of the two client constructors of this invocation
    extract_out,        \* outcome of firecrawl.extract of this invocation
    gen_out,            \* outcome of chat.completions.create of this invocation
    fetched,            \* what fetch_aqi_data did: returned (data, msg) or raised
    aqi_json,           \* analyze_conditions' local aqi_json
    prompt,             \* the prompt sent to the generation service
    result,             \* what analyze_conditions did: returned a tuple or raised
    callLog,            \* outbound call events of this invocation, in order
    invocations,        \* number of finished invocations
    failures            \* number of finished invocations in which some step failed

vars == <<pc, city, state, country, medical_conditions, planned_activity, url, url_req,
          info_msg, ctor_out, extract_out, gen_out, fetched, aqi_json, prompt,
          result, callLog, invocations, failures>>

----
\* Bounds of the model.

\* Longest generated free-text location string.
MaxLen == 2
\* Most metric keys that are missing or carry a defective value in one response.
MaxFaults == 1
\* Number of analyses in one behaviour.
MaxInvocations == 2

----
\* Strings.

\* str.lower on one character (the letters the model's strings use).
LowerChar(c) ==
    CASE c = "A" -> "a" [] c = "B" -> "b" [] c = "D" -> "d" [] c = "E" -> "e"
      [] c = "I" -> "i" [] c = "M" -> "m" [] c = "N" -> "n" [] c = "O" -> "o"
      [] OTHER -> c

\* str.lower
lower(s) == [i \in 1..Len(s) |-> LowerChar(s[i])]

\* str.replace(old, new) for one-character old and new
replace(s, old, new) == [i \in 1..Len(s) |-> IF s[i] = old THEN new ELSE s[i]]

RECURSIVE Concat(_)
\* an f-string: the concatenation of its parts
Concat(parts) == IF parts = <<>> THEN <<>> ELSE Head(parts) \o Concat(Tail(parts))

DashboardPrefix ==
    <<"h","t","t","p","s",":","/","/","w","w","w",".","a","q","i",".","i","n","/",
      "d","a","s","h","b","o","a","r","d","/">>
AccessingPrefix == <<"A","c","c","e","s","s","i","n","g"," ","U","R","L",":"," ">>
ErrorFetchingPrefix ==
    <<"E","r","r","o","r"," ","f","e","t","c","h","i","n","g"," ","A","Q","I"," ",
      "d","a","t","a",":"," ">>
FailedToFetchPrefix ==
    <<"F","a","i","l","e","d"," ","t","o"," ","f","e","t","c","h"," ","A","Q","I"," ",
      "d","a","t","a",":"," ">>
ErrorOccurredPrefix == <<"E","r","r","o","r"," ","o","c","c","u","r","r","e","d",":"," ">>
AnalysisFailed == <<"A","n","a","l","y","s","i","s"," ","f","a","i","l","e","d">>
Wildcard == <<"/","*">>
NoneLower == <<"n","o","n","e">>

----
\* Location URL formatter.

\* the wrong case test: compares state with 'none' without lowering it
format_url_exact_none(c, s, k) ==
    LET country_clean == replace(lower(c), " ", "-")
        city_clean == replace(lower(k), " ", "-")
        state_clean == replace(lower(s), " ", "-")
    IN  IF s = <<>> \/ s = NoneLower
        THEN Concat(<<DashboardPrefix, country_clean, <<"/">>, city_clean>>)
        ELSE Concat(<<DashboardPrefix, country_clean, <<"/">>, state_clean, <<"/">>,
                      city_clean>>)

\* the wrong emptiness test: only an empty state omits the state segment
format_url_only_empty(c, s, k) ==
    LET country_clean == replace(lower(c), " ", "-")
        city_clean == replace(lower(k), " ", "-")
        state_clean == replace(lower(s), " ", "-")
    IN  IF s = <<>>
        THEN Concat(<<DashboardPrefix, country_clean, <<"/">>, city_clean>>)
        ELSE Concat(<<DashboardPrefix, country_clean, <<"/">>, state_clean, <<"/">>,
                      city_clean>>)

\* AQIAnalyzer._format_url(country, state, city)
_format_url(c, s, k) ==
    LET country_clean == replace(lower(c), " ", "-")
        city_clean == replace(lower(k), " ", "-")
        state_clean == replace(lower(s), " ", "-")
    IN  IF s = <<>> \/ lower(s) = NoneLower
        THEN Concat(<<DashboardPrefix, country_clean, <<"/">>, city_clean>>)
        ELSE Concat(<<DashboardPrefix, country_clean, <<"/">>, state_clean, <<"/">>,
                      city_clean>>)

\* f"Accessing URL: {url}" (line 57)
AccessingMsg(u) == AccessingPrefix \o u

\* f"{url}/*" (line 60)
RequestUrl(u) == u \o Wildcard

----
\* Inputs.

Sigma == {"B", " ", "/"}

RECURSIVE StringsUpTo(_)
StringsUpTo(n) ==
    IF n = 0 THEN {<<>>}
    ELSE LET shorter == StringsUpTo(n - 1)
         IN  shorter \cup {Append(s, ch) : s \in {t \in shorter : Len(t) = n - 1}, ch \in Sigma}

Mumbai == <<"M","u","m","b","a","i">>
Maharashtra == <<"M","a","h","a","r","a","s","h","t","r","a">>
India == <<"I","n","d","i","a">>
Delhi == <<"D","e","l","h","i">>
NewDelhi == <<"N","e","w"," ","D","e","l","h","i">>
NoneTitle == <<"N","o","n","e">>
NoneUpper == <<"N","O","N","E">>
Asthma == <<"a","s","t","h","m","a">>
MorningWalk == <<"w","a","l","k">>

\* Free-text field values of the form.
Strings ==
    StringsUpTo(MaxLen) \cup {Mumbai, Maharashtra, India, Delhi, NewDelhi, NoneLower,
                             NoneTitle, NoneUpper}

\* The locations the pipeline is run on: (city, state, country).
Locations ==
    { <<Mumbai, Maharashtra, India>>, <<Delhi, <<>>, India>>, <<NewDelhi, NoneTitle, India>> }

MedicalConditions == {<<>>, Asthma}
PlannedActivities == {MorningWalk}

----
\* Metrics and the extraction service's responses.

\* The fields of ExtractSchema.
Keys == {"aqi", "temperature", "humidity", "wind_speed", "pm25", "pm10", "co"}

\* A reading the page could show; one value per key, all different.
BaseValue ==
    [aqi |-> 150, temperature |-> 30, humidity |-> 60, wind_speed |-> 12,
     pm25 |-> 42, pm10 |-> 80, co |-> 5]

\* Raw JSON values of a response's data mapping.
Num(n) == [kind |-> "num", v |-> n]           \* a number
NumStr(n) == [kind |-> "numstr", v |-> n]     \* a string that parses as the number n
Null == [kind |-> "null"]                     \* None
BadStr == [kind |-> "badstr"]                 \* a string that is no number

Defect(g, k) ==
    CASE g = "null" -> Null
      [] g = "badstr" -> BadStr
      [] g = "numstr" -> NumStr(BaseValue[k])

\* The data mappings: the full reading with at most MaxFaults keys missing or defective.
DataDicts ==
    UNION { UNION { { [k \in Keys \ M |-> IF k \in S THEN Defect(g[k], k) ELSE Num(BaseValue[k])]
                      : g \in [S -> {"null", "badstr", "numstr"}] }
                    : S \in {T \in SUBSET (Keys \ M) : Cardinality(M) + Cardinality(T) <= MaxFaults} }
            : M \in {N \in SUBSET Keys : Cardinality(N) <= MaxFaults} }

FullData == [k \in Keys |-> Num(BaseValue[k])]

Completed == <<"c","o","m","p","l","e","t","e","d">>
Failed == <<"f","a","i","l","e","d">>
ExpiresAtText == <<"2","0","2","5">>

\* The dicts firecrawl.extract can return.
Responses ==
    { [success |-> b, data |-> [kind |-> "dict", items |-> d], status |-> st,
       expiresAt |-> ExpiresAtText]
      : b \in BOOLEAN, d \in DataDicts, st \in {Completed, Failed} }
    \cup { [success |-> b, data |-> Null, status |-> Failed, expiresAt |-> ExpiresAtText]
           : b \in BOOLEAN }
    \cup { [success |-> b, status |-> Failed, expiresAt |-> ExpiresAtText] : b \in BOOLEAN }
    \cup { [success |-> b, data |-> [kind |-> "dict", items |-> FullData], status |-> Completed]
           : b \in BOOLEAN }

\* Exceptions: a class and the text str(e) gives.
Exc(type, msg) == [type |-> type, msg |-> msg]

Timeout == <<"t","i","m","e","o","u","t">>
Quota == <<"q","u","o","t","a">>
NoApiKey == <<"n","o"," ","k","e","y">>

\* What firecrawl.extract can do: return a dict or raise.
ExtractOutcomes ==
    { [kind |-> "return", resp |-> r] : r \in Responses }
    \cup { [kind |-> "raise", exc |-> Exc("ConnectionError", Timeout)],
           [kind |-> "raise", exc |-> Exc("HTTPError", Quota)] }

\* The classes of the exceptions that occur; all derive from Exception.
ExceptionSubclasses ==
    {"ConnectionError", "HTTPError", "KeyError", "TypeError", "ValidationError",
     "ValueError", "IndexError", "APIError"}

KeyChars ==
    [aqi |-> <<"a","q","i">>,
     temperature |-> <<"t","e","m","p","e","r","a","t","u","r","e">>,
     humidity |-> <<"h","u","m","i","d","i","t","y">>,
     wind_speed |-> <<"w","i","n","d","_","s","p","e","e","d">>,
     pm25 |-> <<"p","m","2","5">>,
     pm10 |-> <<"p","m","1","0">>,
     co |-> <<"c","o">>,
     data |-> <<"d","a","t","a">>]

\* KeyError(k); str() of a KeyError is the repr of the key
KeyError(k) == Exc("KeyError", Concat(<< <<"'">>, KeyChars[k], <<"'">> >>))

NotSubscriptable ==
    <<"'","N","o","n","e","T","y","p","e","'"," ","o","b","j","e","c","t"," ","i","s"," ",
      "n","o","t"," ","s","u","b","s","c","r","i","p","t","a","b","l","e">>

\* pydantic's ValidationError; its text is abbreviated to its first line
ValidationErrorText ==
    <<"v","a","l","i","d","a","t","i","o","n"," ","e","r","r","o","r"," ","f","o","r"," ",
      "A","Q","I","R","e","s","p","o","n","s","e">>

----
\* Metrics fetcher.

\* pydantic accepts a value for a float field
FloatCoercible(x) == x.kind \in {"num", "numstr"}

\* AQIResponse(**response) validates: the four fields, data a Dict[str, float]
AQIResponseValid(r) ==
    /\ {"success", "data", "status", "expiresAt"} \subseteq DOMAIN r
    /\ r.data.kind = "dict"
    /\ \A k \in DOMAIN r.data.items : FloatCoercible(r.data.items[k])

\* aqi_response.data: the validated mapping, every value a float
AQIResponseData(r) == [k \in DOMAIN r.data.items |-> r.data.items[k].v]

\* no default is assigned
WindSpeedKeep(items) == items

\* lines 70-71: a None wind_speed becomes 0.0
WindSpeedDefault(items) ==
    IF items["wind_speed"].kind = "null" THEN [items EXCEPT !["wind_speed"] = Num(0)]
    ELSE items

\* the success flag is not looked at
SuccessIgnored(r) == FALSE

\* line 74: not aqi_response.success
NotSuccess(r) == ~r.success

\* the fallback mapping carries a count kept across calls
ZeroMetricsCounted == [k \in Keys |-> IF k = "aqi" THEN failures ELSE 0]

\* the fallback mapping of lines 82-90
ZeroMetrics == [k \in Keys |-> 0]

Return2(data, msg) == [kind |-> "return", data |-> data, msg |-> msg]
Raise(e) == [kind |-> "raise", exc |-> e]

\* lines 59-77: the body of the try block from the extraction call's outcome on
FetchBody(out, info) ==
    IF out.kind = "raise" THEN Raise(out.exc)
    ELSE LET r == out.resp IN
      IF "data" \notin DOMAIN r THEN Raise(KeyError("data"))
      ELSE IF r.data.kind # "dict" THEN Raise(Exc("TypeError", NotSubscriptable))
      ELSE IF "wind_speed" \notin DOMAIN r.data.items THEN Raise(KeyError("wind_speed"))
      ELSE LET r2 == [r EXCEPT !.data.items = WindSpeedDefault(r.data.items)] IN
        IF ~AQIResponseValid(r2) THEN Raise(Exc("ValidationError", ValidationErrorText))
        ELSE IF NotSuccess(r2)
             THEN Raise(Exc("ValueError", FailedToFetchPrefix \o r2.status))
             ELSE Return2(AQIResponseData(r2), info)

\* an except clause that names ValueError only
CatchesValueErrorOnly(e) == e.type = "ValueError"

\* line 79: except Exception
FetchCatches(e) == e.type \in ExceptionSubclasses

\* AQIAnalyzer.fetch_aqi_data, from the extraction call's outcome on
fetch_aqi_data(out, info) ==
    LET b == FetchBody(out, info) IN
    IF b.kind = "raise" /\ FetchCatches(b.exc)
    THEN Return2(ZeroMetrics, ErrorFetchingPrefix \o b.exc.msg)
    ELSE b

----
\* Recommendation generator.

NoneText == <<"N","o","n","e">>
Advice == <<"a","d","v","i","c","e">>
OtherAdvice == <<"o","t","h","e","r">>
ListIndexText ==
    <<"l","i","s","t"," ","i","n","d","e","x"," ","o","u","t"," ","o","f"," ",
      "r","a","n","g","e">>

\* The texts the generation service answers with.
GenTexts == {Advice, OtherAdvice}

\* What chat.completions.create can do: return a completion with its choices, or raise.
GenOutcomes ==
    { [kind |-> "return", choices |-> <<Advice>>],
      [kind |-> "return", choices |-> <<OtherAdvice, Advice>>],
      [kind |-> "return", choices |-> <<>>],
      [kind |-> "raise", exc |-> Exc("APIError", Quota)] }

\* UserInput(...) of lines 153-159
UserInput(k, s, c, m, p) ==
    [city |-> k, state |-> s, country |-> c, medical_conditions |-> m, planned_activity |-> p]

\* HealthRecommendationAgent._create_prompt: the values the template interpolates
_create_prompt(aqi_data, user_input) ==
    [city |-> user_input.city, state |-> user_input.state, country |-> user_input.country,
     aqi |-> aqi_data["aqi"], pm25 |-> aqi_data["pm25"], pm10 |-> aqi_data["pm10"],
     co |-> aqi_data["co"], temperature |-> aqi_data["temperature"],
     humidity |-> aqi_data["humidity"], wind_speed |-> aqi_data["wind_speed"],
     medical_conditions |-> IF user_input.medical_conditions = <<>> THEN NoneText
                            ELSE user_input.medical_conditions,
     planned_activity |-> user_input.planned_activity]

\* HealthRecommendationAgent.get_recommendations, from the generation call's outcome on
get_recommendations(g) ==
    IF g.kind = "raise" THEN Raise(g.exc)
    ELSE IF g.choices = <<>> THEN Raise(Exc("IndexError", ListIndexText))
    ELSE [kind |-> "return", text |-> g.choices[1]]

----
\* Orchestration.

\* What a client constructor can do (FirecrawlApp(...), Groq(...)): succeed, or raise
\* for a missing credential.
CtorOutcomes == { [kind |-> "ok"], [kind |-> "raise", exc |-> Exc("ValueError", NoApiKey)] }

NotRun == [kind |-> "none"]

\* The order in which lines 169-177 read the metrics.
DisplayOrder == <<"aqi", "pm25", "pm10", "co", "temperature", "humidity", "wind_speed">>

\* The first key lines 169-177 read that the mapping lacks.
FirstMissing(aqi_data) ==
    DisplayOrder[CHOOSE i \in 1..Len(DisplayOrder) :
                    /\ DisplayOrder[i] \notin DOMAIN aqi_data
                    /\ \A j \in 1..(i - 1) : DisplayOrder[j] \in DOMAIN aqi_data]

\* lines 169-177: the JSON document as its (label, number, unit) entries in order
\* (the units are written in ASCII: ug/m3 for the micro sign and superscript, C for
\* the degree sign and C)
FormatDisplay(aqi_data) ==
    << <<"Air Quality Index (AQI)", aqi_data["aqi"], "">>,
       <<"PM2.5", aqi_data["pm25"], " ug/m3">>,
       <<"PM10", aqi_data["pm10"], " ug/m3">>,
       <<"Carbon Monoxide (CO)", aqi_data["co"], " ppb">>,
       <<"Temperature", aqi_data["temperature"], "C">>,
       <<"Humidity", aqi_data["humidity"], "%">>,
       <<"Wind Speed", aqi_data["wind_speed"], " km/h">> >>

\* lines 182-190: the fixed note, as one token
WarningMsg == <<"Note: The data shown may not match real-time values on the website.">>

Return4(a, b, c, d) == [kind |-> "return", v |-> <<a, b, c, d>>]

\* the info string is the bare message
FailureTupleBare(e) == Return4(<<>>, AnalysisFailed, e.msg, <<>>)

\* lines 195-196
FailureTuple(e) == Return4(<<>>, AnalysisFailed, ErrorOccurredPrefix \o e.msg, <<>>)

\* line 194: except Exception
OuterCatches(e) == e.type \in ExceptionSubclasses

\* the try/except of analyze_conditions applied to an exception raised in its body
OuterCatch(e) == IF OuterCatches(e) THEN FailureTuple(e) ELSE Raise(e)

\* the extraction call is issued a second time
ExtractCallsTwice == <<"extract_start", "extract_end", "extract_start">>

\* lines 59-65: fetch_aqi_data issues the extraction call once
ExtractCalls == <<"extract_start">>

NoLocals ==
    /\ city = <<>> /\ state = <<>> /\ country = <<>>
    /\ medical_conditions = <<>> /\ planned_activity = <<>>
    /\ url = <<>> /\ url_req = <<>> /\ info_msg = <<>>
    /\ ctor_out = [analyzer |-> NotRun, agent |-> NotRun]
    /\ extract_out = NotRun /\ gen_out = NotRun /\ fetched = NotRun
    /\ aqi_json = <<>> /\ prompt = NotRun /\ result = NotRun /\ callLog = <<>>

Init == pc = "idle" /\ NoLocals /\ invocations = 0 /\ failures = 0

\* analyze_conditions is called: lines 147-166 up to the extraction call of line 59
Invoke ==
    /\ pc = "idle"
    /\ invocations < MaxInvocations
    /\ \E loc \in Locations, m \in MedicalConditions, p \in PlannedActivities,
          a \in CtorOutcomes, h \in CtorOutcomes :
         /\ city' = loc[1] /\ state' = loc[2] /\ country' = loc[3]
         /\ medical_conditions' = m /\ planned_activity' = p
         /\ a.kind = "raise" => h = a
         /\ IF a.kind = "raise"
            THEN /\ ctor_out' = [analyzer |-> a, agent |-> NotRun]
                 /\ result' = OuterCatch(a.exc)
                 /\ pc' = "returned"
                 /\ UNCHANGED <<url, url_req, info_msg, callLog>>
            ELSE IF h.kind = "raise"
            THEN /\ ctor_out' = [analyzer |-> a, agent |-> h]
                 /\ result' = OuterCatch(h.exc)
                 /\ pc' = "returned"
                 /\ UNCHANGED <<url, url_req, info_msg, callLog>>
            ELSE /\ ctor_out' = [analyzer |-> a, agent |-> h]
                 /\ url' = _format_url(loc[3], loc[2], loc[1])
                 /\ info_msg' = AccessingMsg(url')
                 /\ url_req' = RequestUrl(url')
                 /\ callLog' = ExtractCalls
                 /\ pc' = "extracting"
                 /\ UNCHANGED result
    /\ UNCHANGED <<extract_out, gen_out, fetched, aqi_json, prompt, invocations, failures>>

\* firecrawl.extract returns or raises: lines 67-90, then lines 162-180 up to the
\* generation call of line 104
ExtractCompletes ==
    /\ pc = "extracting"
    /\ \E out \in ExtractOutcomes :
         LET f == fetch_aqi_data(out, info_msg) IN
         /\ extract_out' = out
         /\ fetched' = f
         /\ callLog' = callLog \o <<"extract_end">> \o
                (IF f.kind = "return" /\ Keys \subseteq DOMAIN f.data
                 THEN <<"generate_start">> ELSE <<>>)
         /\ IF f.kind = "raise"
            THEN /\ result' = OuterCatch(f.exc)
                 /\ pc' = "returned"
                 /\ UNCHANGED <<aqi_json, prompt>>
            ELSE IF ~(Keys \subseteq DOMAIN f.data)
            THEN /\ result' = OuterCatch(KeyError(FirstMissing(f.data)))
                 /\ pc' = "returned"
                 /\ UNCHANGED <<aqi_json, prompt>>
            ELSE /\ aqi_json' = FormatDisplay(f.data)
                 /\ prompt' = _create_prompt(f.data,
                        UserInput(city, state, country, medical_conditions, planned_activity))
                 /\ pc' = "generating"
                 /\ UNCHANGED result
    /\ UNCHANGED <<city, state, country, medical_conditions, planned_activity, url, url_req,
                   info_msg, ctor_out, gen_out, invocations, failures>>

\* chat.completions.create returns or raises: lines 114, 182-196
GenerateCompletes ==
    /\ pc = "generating"
    /\ \E g \in GenOutcomes :
         LET r == get_recommendations(g) IN
         /\ gen_out' = g
         /\ callLog' = callLog \o <<"generate_end">>
         /\ result' = IF r.kind = "raise" THEN OuterCatch(r.exc)
                      ELSE Return4(aqi_json, r.text, fetched.msg, WarningMsg)
         /\ pc' = "returned"
    /\ UNCHANGED <<city, state, country, medical_conditions, planned_activity, url, url_req,
                   info_msg, ctor_out, extract_out, fetched, aqi_json, prompt, invocations,
                   failures>>

\* Some step of the current invocation failed.
StepFailed ==
    \/ ctor_out.analyzer.kind = "raise"
    \/ ctor_out.agent.kind = "raise"
    \/ extract_out.kind # "none" /\ FetchBody(extract_out, info_msg).kind = "raise"
    \/ fetched.kind = "return" /\ ~(Keys \subseteq DOMAIN fetched.data)
    \/ gen_out.kind # "none" /\ get_recommendations(gen_out).kind = "raise"

\* The four-tuple reaches the caller; the locals of the invocation are gone.
Return ==
    /\ pc = "returned"
    /\ result.kind = "return"
    /\ pc' = "idle"
    /\ city' = <<>> /\ state' = <<>> /\ country' = <<>>
    /\ medical_conditions' = <<>> /\ planned_activity' = <<>>
    /\ url' = <<>> /\ url_req' = <<>> /\ info_msg' = <<>>
    /\ ctor_out' = [analyzer |-> NotRun, agent |-> NotRun]
    /\ extract_out' = NotRun /\ gen_out' = NotRun /\ fetched' = NotRun
    /\ aqi_json' = <<>> /\ prompt' = NotRun /\ result' = NotRun /\ callLog' = <<>>
    /\ invocations' = invocations + 1
    /\ failures' = failures + (IF StepFailed THEN 1 ELSE 0)

Next == Invoke \/ ExtractCompletes \/ GenerateCompletes \/ Return

Spec == Init /\ [][Next]_vars

----
\* The URL formatter on free text: the inputs are drawn, then lines 56-60 run.

InitUrl ==
    /\ pc = "idle"
    /\ city \in Strings /\ state \in Strings /\ country \in Strings
    /\ medical_conditions = <<>> /\ planned_activity = <<>>
    /\ url = <<>> /\ url_req = <<>> /\ info_msg = <<>>
    /\ ctor_out = [analyzer |-> NotRun, agent |-> NotRun]
    /\ extract_out = NotRun /\ gen_out = NotRun /\ fetched = NotRun
    /\ aqi_json = <<>> /\ prompt = NotRun /\ result = NotRun /\ callLog = <<>>
    /\ invocations = 0 /\ failures = 0

\* lines 56-60: url, info_msg and the request's URL
FormatRequest ==
    /\ pc = "idle"
    /\ url' = _format_url(country, state, city)
    /\ info_msg' = AccessingMsg(url')
    /\ url_req' = RequestUrl(url')
    /\ pc' = "requested"
    /\ UNCHANGED <<city, state, country, medical_conditions, planned_activity, ctor_out,
                   extract_out, gen_out, fetched, aqi_json, prompt, result, callLog,
                   invocations, failures>>

NextUrl == FormatRequest

SpecUrl == InitUrl /\ [][NextUrl]_vars

----
\* Properties.

Zero7 ==
    [aqi |-> 0, temperature |-> 0, humidity |-> 0, wind_speed |-> 0, pm25 |-> 0,
     pm10 |-> 0, co |-> 0]

IsPrefixOf(s, w) == Len(s) <= Len(w) /\ SubSeq(w, 1, Len(s)) = s

FetchDone == fetched.kind # "none"

\* The exception the try block of fetch_aqi_data ended with, if it ended with one.
FetchRaised == extract_out.kind # "none" /\ FetchBody(extract_out, info_msg).kind = "raise"

\* C1: after every call of fetch_aqi_data the returned mapping has all seven keys,
\* on the success path as well as on the fallback path.
C1_AllSevenKeys == (FetchDone /\ fetched.kind = "return") => Keys \subseteq DOMAIN fetched.data

\* C2: fetch_aqi_data never raises; whenever something fails inside it, it returns
\* the zero-filled mapping and "Error fetching AQI data: " followed by the text of the
\* exception that was caught (for a network error: the text the extraction call raised).
C2_FetchNeverRaises ==
    FetchDone =>
      /\ fetched.kind = "return"
      /\ extract_out.kind = "raise" =>
            fetched = Return2(Zero7, ErrorFetchingPrefix \o extract_out.exc.msg)
      /\ FetchRaised =>
            fetched = Return2(Zero7, ErrorFetchingPrefix
                                       \o FetchBody(extract_out, info_msg).exc.msg)

C2_Witness ==
    /\ FetchDone /\ fetched.kind = "return" /\ fetched.data = Zero7
    /\ extract_out.kind = "return" /\ "data" \in DOMAIN extract_out.resp
    /\ extract_out.resp.data.kind = "dict"
    /\ "wind_speed" \notin DOMAIN extract_out.resp.data.items

ReportsFailure == extract_out.kind = "return" /\ ~extract_out.resp.success

\* C3: when the response has success = false, fetch_aqi_data returns the zero-filled
\* mapping and an error message, whatever the response's data is.
C3_UnsuccessfulFallsBack ==
    (FetchDone /\ ReportsFailure) =>
      /\ fetched.kind = "return"
      /\ fetched.data = Zero7
      /\ IsPrefixOf(ErrorFetchingPrefix, fetched.msg)
      /\ fetched.msg # info_msg

C3_Witness ==
    /\ FetchDone /\ ReportsFailure
    /\ {"success", "data", "status", "expiresAt"} \subseteq DOMAIN extract_out.resp
    /\ extract_out.resp.data = [kind |-> "dict", items |-> FullData]
    /\ fetched.kind = "return" /\ fetched.data = Zero7

\* The response reports success and is valid apart, possibly, from wind_speed:
\* the four fields are there and the other six metrics are numbers.
OtherwiseValidSuccess ==
    /\ extract_out.kind = "return"
    /\ {"success", "data", "status", "expiresAt"} \subseteq DOMAIN extract_out.resp
    /\ extract_out.resp.success
    /\ extract_out.resp.data.kind = "dict"
    /\ \A k \in Keys \ {"wind_speed"} :
          /\ k \in DOMAIN extract_out.resp.data.items
          /\ extract_out.resp.data.items[k].kind = "num"

WindSpeedAbsent == "wind_speed" \notin DOMAIN extract_out.resp.data.items
WindSpeedNull ==
    /\ "wind_speed" \in DOMAIN extract_out.resp.data.items
    /\ extract_out.resp.data.items["wind_speed"].kind = "null"

\* The service's data with wind_speed 0.0 and the other six values as reported.
DefaultedData ==
    [k \in Keys |-> IF k = "wind_speed" THEN 0 ELSE extract_out.resp.data.items[k].v]

\* C4 as stated: with wind_speed null or absent in an otherwise valid successful
\* response, fetch_aqi_data returns the service's data with wind_speed 0.0 and the
\* "Accessing URL" message.
C4_NullOrAbsentDefaults ==
    (FetchDone /\ OtherwiseValidSuccess /\ (WindSpeedNull \/ WindSpeedAbsent)) =>
      fetched = Return2(DefaultedData, info_msg)

\* C4 amended: with wind_speed present and null the call succeeds with wind_speed 0.0
\* and the other six values unchanged; with the wind_speed key absent the call falls
\* back to the zero-filled mapping and the message of the KeyError.
C4_NullDefaultsAbsentFallsBack ==
    (FetchDone /\ OtherwiseValidSuccess) =>
      /\ WindSpeedNull => fetched = Return2(DefaultedData, info_msg)
      /\ WindSpeedAbsent =>
            fetched = Return2(Zero7, ErrorFetchingPrefix \o KeyError("wind_speed").msg)

C4_Witness ==
    /\ FetchDone /\ OtherwiseValidSuccess /\ WindSpeedNull
    /\ fetched.kind = "return" /\ fetched.data["wind_speed"] = 0
    /\ fetched.data["pm10"] = BaseValue["pm10"]
    /\ fetched.msg = info_msg

\* A step of analyze_conditions outside the Fetcher raised: a client constructor or
\* get_recommendations.  BodyRaisedMsg is the text of that exception.
BodyRaised ==
    \/ ctor_out.analyzer.kind = "raise"
    \/ ctor_out.agent.kind = "raise"
    \/ gen_out.kind = "raise"
    \/ gen_out.kind = "return" /\ gen_out.choices = <<>>

BodyRaisedMsg ==
    IF ctor_out.analyzer.kind = "raise" THEN ctor_out.analyzer.exc.msg
    ELSE IF ctor_out.agent.kind = "raise" THEN ctor_out.agent.exc.msg
    ELSE IF gen_out.kind = "raise" THEN gen_out.exc.msg
    ELSE ListIndexText

\* C5 as stated: when a client constructor or get_recommendations raises,
\* analyze_conditions returns ("", "Analysis failed", m, "") with m the exception's
\* message itself.
C5_InfoIsBareMessage ==
    (pc = "returned" /\ BodyRaised) =>
      result = [kind |-> "return", v |-> <<<<>>, AnalysisFailed, BodyRaisedMsg, <<>>>>]

\* C5 amended: when a client constructor or get_recommendations raises,
\* analyze_conditions raises nothing and returns ("", "Analysis failed",
\* "Error occurred: " followed by the exception's message, "").
C5_InfoIsPrefixedMessage ==
    (pc = "returned" /\ BodyRaised) =>
      result = [kind |-> "return",
                v |-> <<<<>>, AnalysisFailed, ErrorOccurredPrefix \o BodyRaisedMsg, <<>>>>]

C5_Witness ==
    /\ pc = "returned" /\ gen_out.kind = "raise"
    /\ result.kind = "return" /\ result.v[2] = AnalysisFailed

FullCallLog == <<"extract_start", "extract_end", "generate_start", "generate_end">>

ReturnedRecommendation ==
    pc = "returned" /\ result.kind = "return" /\ result.v[2] \in GenTexts

\* C8: in every run of analyze_conditions the outbound calls are one extraction call
\* at most, then one generation call at most, the generation call starting only after
\* the extraction call has ended, none repeated; a run that returns a recommendation
\* made exactly one extraction call followed by exactly one generation call.
C8_CallsInOrderOnce ==
    /\ IsPrefixOf(callLog, FullCallLog)
    /\ pc = "extracting" <=> callLog = SubSeq(FullCallLog, 1, 1)
    /\ pc = "generating" <=> callLog = SubSeq(FullCallLog, 1, 3)
    /\ ReturnedRecommendation => callLog = FullCallLog

C8_Witness == ReturnedRecommendation /\ callLog = FullCallLog /\ extract_out.kind = "raise"

IsFailureTuple(r) ==
    /\ r.kind = "return"
    /\ r.v[1] = <<>> /\ r.v[2] = AnalysisFailed /\ r.v[4] = <<>>
    /\ IsPrefixOf(ErrorOccurredPrefix, r.v[3])

\* C9 as stated: whenever a step fails during an analysis, a failure of the
\* extraction call inside the Fetcher included, analyze_conditions returns the
\* failure tuple.
C9_AnyFailureCollapses == (pc = "returned" /\ StepFailed) => IsFailureTuple(result)

\* A step failed that the Fetcher's own except clause does not cover.
FailedOutsideFetcher ==
    \/ BodyRaised
    \/ fetched.kind = "return" /\ ~(Keys \subseteq DOMAIN fetched.data)

\* C9 amended: when a step fails outside the Fetcher (a client constructor, the
\* reading of a key the returned mapping lacks, get_recommendations),
\* analyze_conditions returns the failure tuple; when the only failure is inside the
\* Fetcher, it returns the display of the zero-filled metrics, the generated
\* recommendation, the Fetcher's "Error fetching AQI data: ..." string and the warning.
C9_FetcherFailureIsPartial ==
    pc = "returned" =>
      /\ FailedOutsideFetcher => IsFailureTuple(result)
      /\ (FetchRaised /\ ~FailedOutsideFetcher) =>
            /\ fetched.kind = "return" /\ gen_out.kind = "return"
            /\ result = [kind |-> "return",
                         v |-> <<FormatDisplay(Zero7), gen_out.choices[1],
                                 ErrorFetchingPrefix
                                   \o FetchBody(extract_out, info_msg).exc.msg,
                                 WarningMsg>>]

C9_Witness ==
    /\ pc = "returned" /\ extract_out.kind = "raise" /\ gen_out.kind = "return"
    /\ result.kind = "return" /\ result.v[2] = Advice /\ result.v[1] # <<>>

\* The tuple analyze_conditions returns, as a function of the invocation's inputs and
\* of what the constructors and the two services answered to it.
ExpectedResult(k, s, c, m, p, ctor, eo, go) ==
    IF ctor.analyzer.kind = "raise"
    THEN Return4(<<>>, AnalysisFailed, ErrorOccurredPrefix \o ctor.analyzer.exc.msg, <<>>)
    ELSE IF ctor.agent.kind = "raise"
    THEN Return4(<<>>, AnalysisFailed, ErrorOccurredPrefix \o ctor.agent.exc.msg, <<>>)
    ELSE LET info == AccessingPrefix \o _format_url(c, s, k)
             b == FetchBody(eo, info)
             data == IF b.kind = "raise" THEN Zero7 ELSE b.data
             msg == IF b.kind = "raise" THEN ErrorFetchingPrefix \o b.exc.msg ELSE info
         IN  IF ~(Keys \subseteq DOMAIN data)
             THEN Return4(<<>>, AnalysisFailed,
                          ErrorOccurredPrefix \o KeyError(FirstMissing(data)).msg, <<>>)
             ELSE IF go.kind = "raise"
             THEN Return4(<<>>, AnalysisFailed, ErrorOccurredPrefix \o go.exc.msg, <<>>)
             ELSE IF go.choices = <<>>
             THEN Return4(<<>>, AnalysisFailed, ErrorOccurredPrefix \o ListIndexText, <<>>)
             ELSE Return4(FormatDisplay(data), go.choices[1], msg, WarningMsg)

\* C10: over any sequence of invocations with arbitrary service failures, an
\* invocation under way can always take its next step and ends by returning a
\* four-tuple, and that tuple is a function of the invocation's own inputs and of
\* the answers it got, whatever happened in earlier invocations.
C10_IndependentInvocations ==
    /\ pc = "extracting" => ENABLED ExtractCompletes
    /\ pc = "generating" => ENABLED GenerateCompletes
    /\ pc = "returned" =>
          /\ ENABLED Return
          /\ result.kind = "return" /\ Len(result.v) = 4
          /\ result = ExpectedResult(city, state, country, medical_conditions,
                                     planned_activity, ctor_out, extract_out, gen_out)

C10_Witness ==
    /\ pc = "returned" /\ invocations > 0 /\ failures > 0
    /\ extract_out.kind = "raise"
    /\ result.kind = "return" /\ result.v[2] = Advice

----
\* Properties of the URL formatter (under SpecUrl).

\* n(s): s lowercased with every space replaced by a hyphen.
Slug(s) == [i \in 1..Len(s) |-> IF s[i] = " " THEN "-" ELSE LowerChar(s[i])]

\* s equals "none" case-insensitively.
IsNoneAnyCase(s) ==
    /\ Len(s) = 4
    /\ s[1] \in {"n", "N"} /\ s[2] \in {"o", "O"} /\ s[3] \in {"n", "N"} /\ s[4] \in {"e", "E"}

StateOmitted == state = <<>> \/ IsNoneAnyCase(state)

MumbaiRequest ==
    <<"h","t","t","p","s",":","/","/","w","w","w",".","a","q","i",".","i","n","/",
      "d","a","s","h","b","o","a","r","d","/","i","n","d","i","a","/",
      "m","a","h","a","r","a","s","h","t","r","a","/","m","u","m","b","a","i","/","*">>
DelhiRequest ==
    <<"h","t","t","p","s",":","/","/","w","w","w",".","a","q","i",".","i","n","/",
      "d","a","s","h","b","o","a","r","d","/","i","n","d","i","a","/",
      "d","e","l","h","i","/","*">>

\* C6: _format_url gives prefix + n(country) + "/" + n(city) when state is empty or
\* "none" in any case, and prefix + n(country) + "/" + n(state) + "/" + n(city)
\* otherwise; the URL given to the extraction service is that string followed by "/*"
\* (Mumbai/Maharashtra/India and Delhi/""/India give the two documented URLs).
C6_UrlShape ==
    pc = "requested" =>
      /\ url = IF StateOmitted
               THEN DashboardPrefix \o Slug(country) \o <<"/">> \o Slug(city)
               ELSE DashboardPrefix \o Slug(country) \o <<"/">> \o Slug(state)
                      \o <<"/">> \o Slug(city)
      /\ url_req = url \o <<"/", "*">>
      /\ (city = Mumbai /\ state = Maharashtra /\ country = India) => url_req = MumbaiRequest
      /\ (city = Delhi /\ state = <<>> /\ country = India) => url_req = DelhiRequest

C6_Witness ==
    /\ pc = "requested" /\ city = NewDelhi /\ state = NoneUpper /\ country = India
    /\ Len(url) = Len(DashboardPrefix) + Len(India) + 1 + Len(NewDelhi)

\* The part of the URL after the fixed prefix, and its number of "/"-separated segments.
UrlPath == SubSeq(url, Len(DashboardPrefix) + 1, Len(url))
Segments(s) == Cardinality({i \in 1..Len(s) : s[i] = "/"}) + 1
HasSlash(s) == \E i \in 1..Len(s) : s[i] = "/"

\* C7 as stated: for all input strings, those holding "/" included, the URL has
\* exactly two path segments after the prefix when state is empty or "none", and
\* exactly three otherwise.
C7_SegmentsAnyInput ==
    pc = "requested" => Segments(UrlPath) = (IF StateOmitted THEN 2 ELSE 3)

\* C7 amended: for all input strings that hold no "/" (empty and all-space strings
\* included), the URL has exactly two "/"-separated segments after the prefix when
\* state is empty or "none", and exactly three otherwise.
C7_SegmentsNoSlashInput ==
    (pc = "requested" /\ ~HasSlash(country) /\ ~HasSlash(state) /\ ~HasSlash(city)) =>
      Segments(UrlPath) = (IF StateOmitted THEN 2 ELSE 3)

C7_Witness ==
    /\ pc = "requested" /\ country = <<>> /\ state = <<" ", " ">> /\ city = <<"B">>
    /\ Segments(UrlPath) = 3

====
